---- MODULE Spec2Model ----
(***************************************************************************)
(* Model of QualifiedRewriter                                              *)
(* (query/src/sql/statements/query/query_qualified_rewriter.rs): the       *)
(* name-resolution pass that rewrites every column reference of a query's  *)
(* clause lists against the joined schema of its FROM clause.              *)
(*                                                                         *)
(* Expressions are records with a "tag" field naming the variant of        *)
(* common_planners::Expression.  Column names are strings, built with the  *)
(* same concatenations the code performs (format!("{}.{}", ...), join(".")).*)
(* A Result is a record: ok = TRUE with the expression, or ok = FALSE with *)
(* the ErrorCode (its kind, its message, and the trail of messages         *)
(* appended by add_message_back).                                          *)
(***************************************************************************)
EXTENDS Integers, Sequences, FiniteSets, TLC

VARIABLES
    tables_schema,      \* QualifiedRewriter.tables_schema: sequence of table descriptors
    current_database,   \* ctx.get_current_database()
    input,              \* the QueryASTIR handed to rewrite (kept for comparison)
    ir,                 \* the QueryASTIR being rewritten (`mut ir`)
    pc,                 \* position inside rewrite
    result,             \* what rewrite returned, NoResult before it returns
    ref_names,          \* argument of rewrite_qualified_column (resolver runs)
    matched,            \* what best_match_table returned for ref_names
    outcome,            \* what rewrite_qualified_column returned for ref_names
    subject,            \* the expressions handed to one clause (clause runs)
    rewritten           \* what the clause's rewrite returned for subject

vars == <<tables_schema, current_database, input, ir, pc, result,
          ref_names, matched, outcome, subject, rewritten>>

(***************************************************************************)
(* Bounds of the model                                                     *)
(***************************************************************************)
MaxTables == 2
MaxColumns == 2
MaxRefLen == 3
MaxItems == 2
MaxNodes == 3

Min(a, b) == IF a <= b THEN a ELSE b

\* All sequences over S of length lo..hi
SeqsBetween(S, lo, hi) == UNION {[1..n -> S] : n \in lo..hi}

(***************************************************************************)
(* Results and errors                                                      *)
(***************************************************************************)
Ok(e) == [ok |-> TRUE, expr |-> e]

ErrorCode(kind, message) == [ok |-> FALSE, kind |-> kind, message |-> message, back |-> <<>>]

UnknownColumn(message) == ErrorCode("UnknownColumn", message)

SyntaxException(message) == ErrorCode("SyntaxException", message)

\* cause.add_message_back(format!(" (while in analyze <clause> {:?})", expr)):
\* the kind and the message stay, the clause and the expression shown are appended.
add_message_back(cause, clause, expr) ==
    [cause EXCEPT !.back = Append(@, [clause |-> clause, expr |-> expr])]

(***************************************************************************)
(* Expressions                                                             *)
(***************************************************************************)
Column(name) == [tag |-> "Column", name |-> name]

QualifiedColumn(names) == [tag |-> "QualifiedColumn", names |-> names]

Alias(alias, e) == [tag |-> "Alias", alias |-> alias, expr |-> e]

UnaryExpression(op, e) == [tag |-> "UnaryExpression", op |-> op, expr |-> e]

BinaryExpression(left, op, right) ==
    [tag |-> "BinaryExpression", left |-> left, op |-> op, right |-> right]

ScalarFunction(op, args) == [tag |-> "ScalarFunction", op |-> op, args |-> args]

AggregateFunction(op, distinct, params, args) ==
    [tag |-> "AggregateFunction", op |-> op, distinct |-> distinct,
     params |-> params, args |-> args]

Sort(e, asc, nulls_first, origin_expr) ==
    [tag |-> "Sort", expr |-> e, asc |-> asc, nulls_first |-> nulls_first,
     origin_expr |-> origin_expr]

Cast(e, data_type) == [tag |-> "Cast", expr |-> e, data_type |-> data_type]

Wildcard == [tag |-> "Wildcard"]

Literal(value) == [tag |-> "Literal", value |-> value]

Subquery(name) == [tag |-> "Subquery", name |-> name]

ScalarSubquery(name) == [tag |-> "ScalarSubquery", name |-> name]

(***************************************************************************)
(* The joined schema                                                       *)
(***************************************************************************)
ColumnDesc(short_name, is_ambiguity) ==
    [short_name |-> short_name, is_ambiguity |-> is_ambiguity]

TableDesc(name_parts, columns_desc) ==
    [name_parts |-> name_parts, columns_desc |-> columns_desc]

\* name_parts.join(".")
RECURSIVE Join(_)
Join(parts) ==
    IF Len(parts) = 0 THEN ""
    ELSE IF Len(parts) = 1 THEN parts[1]
    ELSE parts[1] \o "." \o Join(Tail(parts))

\* JoinedSchema::contains_column: the bare name is the short name of a column
\* of one of the joined tables.
contains_column(schema, v) ==
    \E t \in 1..Len(schema) :
        \E c \in 1..Len(schema[t].columns_desc) :
            schema[t].columns_desc[c].short_name = v

(***************************************************************************)
(* Qualified-name resolution                                               *)
(***************************************************************************)
\* Number of leading positions at which left and right agree (0-based index
\* of the first difference), at most the shorter length.
first_diff_pos(left, right) ==
    LET min_len == Min(Len(left), Len(right))
        diff == {index \in 1..min_len : left[index] # right[index]}
    IN  IF diff = {} THEN min_len
        ELSE (CHOOSE index \in diff : \A other \in diff : index <= other) - 1

NoMatch == [found |-> FALSE, pos |-> 0, table |-> 0]

\* Mutant of match_table: the elision rule without the comparison of the
\* table's database with the current database.
match_table_any_database(names, name_parts, database) ==
    IF first_diff_pos(names, name_parts) = Len(name_parts)
    THEN Len(name_parts)
    ELSE IF Len(name_parts) > 1 /\ first_diff_pos(names, Tail(name_parts)) = 1
         THEN 1
         ELSE -1

\* The two match rules of best_match_table for one table descriptor:
\* the pos it returns for the table, or -1 when neither rule holds.
match_table(names, name_parts, database) ==
    IF first_diff_pos(names, name_parts) = Len(name_parts)
    THEN Len(name_parts)
    ELSE IF /\ Len(name_parts) > 1
            /\ first_diff_pos(names, Tail(name_parts)) = 1
            /\ database = name_parts[1]
         THEN 1
         ELSE -1

\* The for loop of best_match_table from table number t on.
RECURSIVE scan_tables(_, _, _, _)
scan_tables(schema, database, names, t) ==
    IF t > Len(schema) THEN NoMatch
    ELSE LET pos == match_table(names, schema[t].name_parts, database)
         IN  IF pos >= 0
             THEN [found |-> TRUE, pos |-> pos, table |-> t]
             ELSE scan_tables(schema, database, names, t + 1)

\* Mutant of best_match_table: every table is tried for a full-prefix match
\* before any table is tried for the elision rule.
best_match_table_prefix_first(schema, database, names) ==
    LET full == {t \in 1..Len(schema) :
                    first_diff_pos(names, schema[t].name_parts) = Len(schema[t].name_parts)}
        first == CHOOSE t \in full : \A u \in full : t <= u
    IN  IF Len(names) <= 1 THEN NoMatch
        ELSE IF full # {}
             THEN [found |-> TRUE, pos |-> Len(schema[first].name_parts), table |-> first]
             ELSE scan_tables(schema, database, names, 1)

best_match_table(schema, database, names) ==
    IF Len(names) <= 1 THEN NoMatch
    ELSE scan_tables(schema, database, names, 1)

\* The for loop of find_column from column number c on.
RECURSIVE scan_columns(_, _, _)
scan_columns(table_desc, name, c) ==
    IF c > Len(table_desc.columns_desc)
    THEN UnknownColumn("Unknown column: " \o Join(table_desc.name_parts) \o "." \o name)
    ELSE IF table_desc.columns_desc[c].short_name = name
         THEN IF table_desc.columns_desc[c].is_ambiguity
              THEN Ok(Column(Join(table_desc.name_parts) \o "." \o name))
              ELSE Ok(Column(name))
         ELSE scan_columns(table_desc, name, c + 1)

\* Mutant of find_column: an ambiguous column is qualified by the table's
\* last name part alone, the qualifier as written under elision.
find_column_written_qualifier(table_desc, name) ==
    LET r == scan_columns(table_desc, name, 1)
    IN  IF r.ok /\ r.expr.name # name
        THEN Ok(Column(table_desc.name_parts[Len(table_desc.name_parts)] \o "." \o name))
        ELSE r

\* Mutant of find_column: the column is qualified whether or not it is
\* flagged ambiguous.
find_column_always_qualified(table_desc, name) ==
    LET r == scan_columns(table_desc, name, 1)
    IN  IF r.ok THEN Ok(Column(Join(table_desc.name_parts) \o "." \o name)) ELSE r

find_column(table_desc, name) == scan_columns(table_desc, name, 1)

rewrite_qualified_column(schema, database, names) ==
    LET m == best_match_table(schema, database, names)
    IN  IF ~m.found
        THEN UnknownColumn("Unknown column " \o Join(names))
        ELSE LET column_name == SubSeq(names, m.pos + 1, Len(names))
             IN  IF Len(column_name) = 1
                 THEN find_column(schema[m.table], column_name[1])
                 ELSE SyntaxException("Unsupported complex type field access")

(***************************************************************************)
(* Wildcard expansion                                                      *)
(***************************************************************************)
\* The inner for loop of expand_wildcard, from column number c of one table.
RECURSIVE expand_columns(_, _, _)
expand_columns(table_desc, c, columns_expression) ==
    IF c > Len(table_desc.columns_desc) THEN columns_expression
    ELSE LET column_desc == table_desc.columns_desc[c]
             name == column_desc.short_name
         IN  expand_columns(table_desc, c + 1,
                 IF column_desc.is_ambiguity
                 THEN Append(columns_expression,
                             Column(Join(table_desc.name_parts) \o "." \o name))
                 ELSE Append(columns_expression, Column(name)))

\* The outer for loop of expand_wildcard, from table number t.
RECURSIVE expand_tables(_, _, _)
expand_tables(schema, t, columns_expression) ==
    IF t > Len(schema) THEN columns_expression
    ELSE expand_tables(schema, t + 1,
                       expand_columns(schema[t], 1, columns_expression))

\* Mutant of expand_wildcard: the expansion replaces what was collected
\* before it instead of being appended to it.
expand_wildcard_replacing(schema, columns_expression) ==
    expand_tables(schema, 1, <<>>)

expand_wildcard(schema, columns_expression) ==
    expand_tables(schema, 1, columns_expression)

(***************************************************************************)
(* Expression rewriting                                                    *)
(***************************************************************************)
RECURSIVE rewrite_expr(_, _, _)
RECURSIVE rewrite_args(_, _, _, _)
RECURSIVE rewrite_args_prepending(_, _, _, _)

\* Mutant of rewrite_args: each rewritten argument is put before the ones
\* collected so far.
rewrite_args_prepending(schema, database, args, new_args) ==
    IF Len(args) = 0 THEN [ok |-> TRUE, args |-> new_args]
    ELSE LET r == rewrite_expr(schema, database, Head(args))
         IN  IF r.ok
             THEN rewrite_args_prepending(schema, database, Tail(args),
                                          <<r.expr>> \o new_args)
             ELSE r

\* `for arg in args { new_args.push(self.rewrite_expr(arg)?); }`
rewrite_args(schema, database, args, new_args) ==
    IF Len(args) = 0 THEN [ok |-> TRUE, args |-> new_args]
    ELSE LET r == rewrite_expr(schema, database, Head(args))
         IN  IF r.ok
             THEN rewrite_args(schema, database, Tail(args), Append(new_args, r.expr))
             ELSE r

rewrite_expr(schema, database, expr) ==
    CASE expr.tag = "Column" ->
            IF contains_column(schema, expr.name)
            THEN Ok(Column(expr.name))
            ELSE UnknownColumn("Unknown column " \o expr.name)
      [] expr.tag = "QualifiedColumn" ->
            rewrite_qualified_column(schema, database, expr.names)
      [] expr.tag = "Alias" ->
            LET r == rewrite_expr(schema, database, expr.expr)
            IN  IF r.ok THEN Ok(Alias(expr.alias, r.expr)) ELSE r
      [] expr.tag = "UnaryExpression" ->
            LET r == rewrite_expr(schema, database, expr.expr)
            IN  IF r.ok THEN Ok(UnaryExpression(expr.op, r.expr)) ELSE r
      [] expr.tag = "BinaryExpression" ->
            LET l == rewrite_expr(schema, database, expr.left)
            IN  IF ~l.ok THEN l
                ELSE LET r == rewrite_expr(schema, database, expr.right)
                     IN  IF r.ok
                         THEN Ok(BinaryExpression(l.expr, expr.op, r.expr))
                         ELSE r
      [] expr.tag = "ScalarFunction" ->
            LET a == rewrite_args(schema, database, expr.args, <<>>)
            IN  IF a.ok THEN Ok(ScalarFunction(expr.op, a.args)) ELSE a
      [] expr.tag = "AggregateFunction" ->
            LET a == rewrite_args(schema, database, expr.args, <<>>)
            IN  IF a.ok
                THEN Ok(AggregateFunction(expr.op, expr.distinct, expr.params, a.args))
                ELSE a
      [] expr.tag = "Sort" ->
            LET e == rewrite_expr(schema, database, expr.expr)
            IN  IF ~e.ok THEN e
                ELSE LET o == rewrite_expr(schema, database, expr.origin_expr)
                     IN  IF o.ok
                         THEN Ok(Sort(e.expr, expr.asc, expr.nulls_first, o.expr))
                         ELSE o
      [] expr.tag = "Cast" ->
            LET r == rewrite_expr(schema, database, expr.expr)
            IN  IF r.ok THEN Ok(Cast(r.expr, expr.data_type)) ELSE r
      [] expr.tag \in {"Wildcard", "Literal", "Subquery", "ScalarSubquery"} ->
            Ok(expr)

(***************************************************************************)
(* Clause rewriting                                                        *)
(***************************************************************************)
\* Mutant of rewrite_each: every element is rewritten and the error of the
\* last failing one is returned.
RECURSIVE rewrite_each_last_error(_, _, _, _, _)
rewrite_each_last_error(schema, database, exprs, clause, expressions) ==
    IF Len(exprs) = 0 THEN [ok |-> TRUE, exprs |-> expressions]
    ELSE LET r == rewrite_expr(schema, database, Head(exprs))
             rest == rewrite_each_last_error(schema, database, Tail(exprs), clause, <<>>)
         IN  IF ~rest.ok THEN rest
             ELSE IF ~r.ok THEN add_message_back(r, clause, Head(exprs))
             ELSE [ok |-> TRUE, exprs |-> expressions \o <<r.expr>> \o rest.exprs]

\* The loop shared by rewrite_group, rewrite_order and rewrite_aggregate:
\* every element through rewrite_expr, the first failure returned with the
\* clause and the element appended to its message.
RECURSIVE rewrite_each(_, _, _, _, _)
rewrite_each(schema, database, exprs, clause, expressions) ==
    IF Len(exprs) = 0 THEN [ok |-> TRUE, exprs |-> expressions]
    ELSE LET r == rewrite_expr(schema, database, Head(exprs))
         IN  IF r.ok
             THEN rewrite_each(schema, database, Tail(exprs), clause,
                               Append(expressions, r.expr))
             ELSE add_message_back(r, clause, Head(exprs))

rewrite_group(schema, database, q) ==
    LET r == rewrite_each(schema, database, q.group_by_expressions, "group expr", <<>>)
    IN  IF r.ok THEN [ok |-> TRUE, ir |-> [q EXCEPT !.group_by_expressions = r.exprs]]
        ELSE r

rewrite_aggregate(schema, database, q) ==
    LET r == rewrite_each(schema, database, q.aggregate_expressions, "aggregate expr", <<>>)
    IN  IF r.ok THEN [ok |-> TRUE, ir |-> [q EXCEPT !.aggregate_expressions = r.exprs]]
        ELSE r

rewrite_order(schema, database, q) ==
    LET r == rewrite_each(schema, database, q.order_by_expressions, "order expr", <<>>)
    IN  IF r.ok THEN [ok |-> TRUE, ir |-> [q EXCEPT !.order_by_expressions = r.exprs]]
        ELSE r

\* Mutant of is_aliased_wildcard: a wildcard anywhere below the top of the
\* item is taken for an aliased wildcard.
is_nested_wildcard(expr) ==
    \/ expr.tag = "Alias" /\ expr.expr.tag = "Wildcard"
    \/ expr.tag = "ScalarFunction" /\ \E i \in 1..Len(expr.args) : expr.args[i].tag = "Wildcard"

\* Lines 141-145: the projection item is Alias(_, Wildcard).
is_aliased_wildcard(expr) == expr.tag = "Alias" /\ expr.expr.tag = "Wildcard"

\* The for loop of rewrite_projection over the items not yet processed.
RECURSIVE project_each(_, _, _, _)
project_each(schema, database, exprs, projection_expressions) ==
    IF Len(exprs) = 0 THEN [ok |-> TRUE, exprs |-> projection_expressions]
    ELSE LET projection_expression == Head(exprs)
         IN  IF is_aliased_wildcard(projection_expression)
             THEN SyntaxException("* AS alias is wrong syntax")
             ELSE IF projection_expression.tag = "Wildcard"
             THEN project_each(schema, database, Tail(exprs),
                               expand_wildcard(schema, projection_expressions))
             ELSE LET r == rewrite_expr(schema, database, projection_expression)
                  IN  IF r.ok
                      THEN project_each(schema, database, Tail(exprs),
                                        Append(projection_expressions, r.expr))
                      ELSE add_message_back(r, "projection expr", projection_expression)

rewrite_projection(schema, database, q) ==
    LET r == project_each(schema, database, q.projection_expressions, <<>>)
    IN  IF r.ok THEN [ok |-> TRUE, ir |-> [q EXCEPT !.projection_expressions = r.exprs]]
        ELSE r

\* Mutant of rewrite_predicate: the error is returned as it came.
rewrite_predicate_unwrapped(schema, database, predicate, clause) ==
    IF Len(predicate) = 0 THEN [ok |-> TRUE, predicate |-> predicate]
    ELSE LET r == rewrite_expr(schema, database, predicate[1])
         IN  IF r.ok THEN [ok |-> TRUE, predicate |-> <<r.expr>>] ELSE r

\* Lines 42-54 and 56-68: an Option<Expression> is a sequence of length 0 or 1.
rewrite_predicate(schema, database, predicate, clause) ==
    IF Len(predicate) = 0 THEN [ok |-> TRUE, predicate |-> predicate]
    ELSE LET r == rewrite_expr(schema, database, predicate[1])
         IN  IF r.ok THEN [ok |-> TRUE, predicate |-> <<r.expr>>]
             ELSE add_message_back(r, clause, predicate[1])

(***************************************************************************)
(* Inputs                                                                  *)
(***************************************************************************)
Names == {"a", "b"}

\* A table is declared by its alias or by database and table name.
NameParts == SeqsBetween(Names, 1, 2)

ColumnDescs == {ColumnDesc("a", TRUE), ColumnDesc("a", FALSE), ColumnDesc("b", FALSE)}

\* How many columns each table of a schema holds: at most MaxTables tables
\* holding at most MaxColumns columns together.
RECURSIVE Sum(_)
Sum(counts) == IF Len(counts) = 0 THEN 0 ELSE Head(counts) + Sum(Tail(counts))

SchemaShapes ==
    {counts \in SeqsBetween(0..MaxColumns, 0, MaxTables) : Sum(counts) <= MaxColumns}

\* The schema of the given shape whose tables are named parts[t] and whose
\* columns, table after table, are cols.
SchemaOf(counts, parts, cols) ==
    [t \in 1..Len(counts) |->
        TableDesc(parts[t],
                  SubSeq(cols, Sum(SubSeq(counts, 1, t - 1)) + 1,
                               Sum(SubSeq(counts, 1, t))))]

\* tables_schema is any schema within the bounds.
AnySchema ==
    \E counts \in SchemaShapes :
        \E parts \in [1..Len(counts) -> NameParts] :
            \E cols \in [1..Sum(counts) -> ColumnDescs] :
                tables_schema = SchemaOf(counts, parts, cols)

\* A QualifiedColumn holds at least two name parts.
Refs == SeqsBetween(Names, 2, MaxRefLen)

EmptyIR ==
    [group_by_expressions |-> <<>>, order_by_expressions |-> <<>>,
     aggregate_expressions |-> <<>>, projection_expressions |-> <<>>,
     filter_predicate |-> <<>>, having_predicate |-> <<>>]

NoResult == [ok |-> FALSE, kind |-> "none", message |-> "", back |-> <<>>]

(***************************************************************************)
(* Query inputs                                                            *)
(***************************************************************************)
\* Tables of the queries: an alias holding a and b, and a table declared in
\* database db1 whose column a is the ambiguous one of the join.
T1 == TableDesc(<<"t1">>, <<ColumnDesc("a", FALSE), ColumnDesc("b", FALSE)>>)

T2 == TableDesc(<<"db1", "t2">>, <<ColumnDesc("a", TRUE)>>)

QueryTables == {T1, T2}

QueryDatabases == {"db1", "db2"}

\* The clause items of the queries.  The BinaryExpression never rewrites
\* (its right operand is a nested field access, or names no table); the Sort
\* rewrites when t1 is joined.
ItemPool ==
    {Column("a"),
     QualifiedColumn(<<"t2", "a">>),
     BinaryExpression(Column("b"), "+", QualifiedColumn(<<"t1", "a", "f">>)),
     Sort(QualifiedColumn(<<"t1", "b">>), TRUE, FALSE, Column("a")),
     Wildcard,
     Alias("x", Wildcard),
     ScalarFunction("f", <<Wildcard>>)}

\* The six sites of a query in the order rewrite visits them.
GroupSite == 1
OrderSite == 2
AggregateSite == 3
ProjectionSite == 4
FilterSite == 5
HavingSite == 6
Sites == GroupSite..HavingSite

\* Where each of k items goes: sites in nondecreasing order, the two
\* predicates holding at most one expression each.
Placements(k) ==
    {sites \in [1..k -> Sites] :
        /\ \A i \in 1..(k - 1) : sites[i] <= sites[i + 1]
        /\ \A i \in 1..(k - 1) : sites[i] >= FilterSite => sites[i] < sites[i + 1]}

\* The items placed at one site, in order.
ItemsAt(items, sites, site) ==
    SubSeq(items, Cardinality({i \in 1..Len(sites) : sites[i] < site}) + 1,
                  Cardinality({i \in 1..Len(sites) : sites[i] <= site}))

QueryOf(items, sites) ==
    [group_by_expressions |-> ItemsAt(items, sites, GroupSite),
     order_by_expressions |-> ItemsAt(items, sites, OrderSite),
     aggregate_expressions |-> ItemsAt(items, sites, AggregateSite),
     projection_expressions |-> ItemsAt(items, sites, ProjectionSite),
     filter_predicate |-> ItemsAt(items, sites, FilterSite),
     having_predicate |-> ItemsAt(items, sites, HavingSite)]

(***************************************************************************)
(* rewrite: a rewriter is created over a schema and a session, then        *)
(* rewrite(ir) runs through the six sites.  pc is the site about to be     *)
(* rewritten; "done" and "failed" are the two returns.                     *)
(***************************************************************************)
Init ==
    /\ tables_schema \in SeqsBetween(QueryTables, 0, MaxTables)
    /\ current_database \in QueryDatabases
    /\ input = EmptyIR
    /\ ir = EmptyIR
    /\ pc = "created"
    /\ result = NoResult
    /\ ref_names = <<>>
    /\ matched = NoMatch
    /\ outcome = NoResult
    /\ subject = <<>>
    /\ rewritten = NoResult

\* What a step of rewrite does with the Result r of one site: `?` returns the
\* error, otherwise the rewritten ir goes on to the next site.
Step(r, next) ==
    /\ IF r.ok
       THEN /\ ir' = r.ir
            /\ pc' = next
            /\ result' = IF next = "done" THEN [ok |-> TRUE, ir |-> r.ir] ELSE result
       ELSE /\ ir' = ir
            /\ pc' = "failed"
            /\ result' = r
    /\ UNCHANGED <<tables_schema, current_database, ref_names, matched, outcome,
                   subject, rewritten>>

\* rewrite is called with an ir; line 37.
RewriteGroup ==
    /\ pc = "created"
    /\ \E k \in 0..MaxItems :
        \E items \in [1..k -> ItemPool] :
            \E sites \in Placements(k) :
                /\ input' = QueryOf(items, sites)
                /\ LET r == rewrite_group(tables_schema, current_database, input')
                   IN  IF r.ok
                       THEN ir' = r.ir /\ pc' = "order" /\ result' = result
                       ELSE ir' = input' /\ pc' = "failed" /\ result' = r
    /\ UNCHANGED <<tables_schema, current_database, ref_names, matched, outcome,
                   subject, rewritten>>

\* Line 38.
RewriteOrder ==
    /\ pc = "order"
    /\ Step(rewrite_order(tables_schema, current_database, ir), "aggregate")
    /\ UNCHANGED input

\* Line 39.
RewriteAggregate ==
    /\ pc = "aggregate"
    /\ Step(rewrite_aggregate(tables_schema, current_database, ir), "projection")
    /\ UNCHANGED input

\* Line 40.
RewriteProjection ==
    /\ pc = "projection"
    /\ Step(rewrite_projection(tables_schema, current_database, ir), "filter")
    /\ UNCHANGED input

rewrite_filter(schema, database, q) ==
    LET r == rewrite_predicate(schema, database, q.filter_predicate, "filter predicate")
    IN  IF r.ok THEN [ok |-> TRUE, ir |-> [q EXCEPT !.filter_predicate = r.predicate]]
        ELSE r

rewrite_having(schema, database, q) ==
    LET r == rewrite_predicate(schema, database, q.having_predicate, "having predicate")
    IN  IF r.ok THEN [ok |-> TRUE, ir |-> [q EXCEPT !.having_predicate = r.predicate]]
        ELSE r

\* Lines 42-54.
RewriteFilter ==
    /\ pc = "filter"
    /\ Step(rewrite_filter(tables_schema, current_database, ir), "having")
    /\ UNCHANGED input

\* Lines 56-70: the having predicate, then Ok(ir).
RewriteHaving ==
    /\ pc = "having"
    /\ Step(rewrite_having(tables_schema, current_database, ir), "done")
    /\ UNCHANGED input

Next ==
    \/ RewriteGroup
    \/ RewriteOrder
    \/ RewriteAggregate
    \/ RewriteProjection
    \/ RewriteFilter
    \/ RewriteHaving

Spec == Init /\ [][Next]_vars

(***************************************************************************)
(* Claims about rewrite                                                    *)
(***************************************************************************)
ClauseName(site) ==
    CASE site = GroupSite -> "group expr"
      [] site = OrderSite -> "order expr"
      [] site = AggregateSite -> "aggregate expr"
      [] site = ProjectionSite -> "projection expr"
      [] site = FilterSite -> "filter predicate"
      [] site = HavingSite -> "having predicate"

SiteItems(q, site) ==
    CASE site = GroupSite -> q.group_by_expressions
      [] site = OrderSite -> q.order_by_expressions
      [] site = AggregateSite -> q.aggregate_expressions
      [] site = ProjectionSite -> q.projection_expressions
      [] site = FilterSite -> q.filter_predicate
      [] site = HavingSite -> q.having_predicate

\* The leaves of an expression, depth first and left to right.
RECURSIVE LeafSeq(_)
RECURSIVE LeafSeqOfAll(_)
LeafSeq(e) ==
    CASE e.tag \in {"Alias", "UnaryExpression", "Cast"} -> LeafSeq(e.expr)
      [] e.tag = "BinaryExpression" -> LeafSeq(e.left) \o LeafSeq(e.right)
      [] e.tag = "Sort" -> LeafSeq(e.expr) \o LeafSeq(e.origin_expr)
      [] e.tag \in {"ScalarFunction", "AggregateFunction"} -> LeafSeqOfAll(e.args)
      [] OTHER -> <<e>>

LeafSeqOfAll(args) ==
    IF Len(args) = 0 THEN <<>> ELSE LeafSeq(Head(args)) \o LeafSeqOfAll(Tail(args))

\* rewrite_expr of this rewriter.
Rewritten(e) == rewrite_expr(tables_schema, current_database, e)

FailingLeaves(e) == {k \in 1..Len(LeafSeq(e)) : ~Rewritten(LeafSeq(e)[k]).ok}

AliasedWildcard(e) == e.tag = "Alias" /\ e.expr.tag = "Wildcard"

\* The clause items of the input at which rewrite cannot go on.
ItemFails(site, e) ==
    IF site = ProjectionSite /\ AliasedWildcard(e) THEN TRUE
    ELSE IF site = ProjectionSite /\ e = Wildcard THEN FALSE
    ELSE FailingLeaves(e) # {}

FailingPositions ==
    {p \in Sites \X (1..MaxItems) :
        /\ p[2] <= Len(SiteItems(input, p[1]))
        /\ ItemFails(p[1], SiteItems(input, p[1])[p[2]])}

Earlier(p, q) == p[1] < q[1] \/ (p[1] = q[1] /\ p[2] <= q[2])

FirstFailingPosition == CHOOSE p \in FailingPositions : \A q \in FailingPositions : Earlier(p, q)

\* The error of the first failing leaf of e, with the clause and e appended.
FirstLeafError(site, e) ==
    LET k == CHOOSE k \in FailingLeaves(e) : \A j \in FailingLeaves(e) : k <= j
    IN  [Rewritten(LeafSeq(e)[k]) EXCEPT
            !.back = <<[clause |-> ClauseName(site), expr |-> e]>>]

AliasedWildcardError == SyntaxException("* AS alias is wrong syntax")

\* The columns of the joined schema: how many the tables before table t
\* hold, how many there are, and the k-th of them as a wildcard renders it.
ColumnsBefore(t) ==
    Sum([i \in 1..(t - 1) |-> Len(tables_schema[i].columns_desc)])

TotalColumns == ColumnsBefore(Len(tables_schema) + 1)

WildcardColumn(k) ==
    LET t == CHOOSE t \in 1..Len(tables_schema) :
                 ColumnsBefore(t) < k /\ k <= ColumnsBefore(t + 1)
        column_desc == tables_schema[t].columns_desc[k - ColumnsBefore(t)]
    IN  IF column_desc.is_ambiguity
        THEN Column(Join(tables_schema[t].name_parts) \o "." \o column_desc.short_name)
        ELSE Column(column_desc.short_name)

\* How many output items the projection items before item i produce.
OutputBefore(i) ==
    Sum([j \in 1..(i - 1) |->
            IF input.projection_expressions[j] = Wildcard THEN TotalColumns ELSE 1])

ProjectionRewritten == pc \in {"filter", "having", "done"}

\* C1: a successful rewrite_projection puts, in place of each bare top-level
\* Wildcard, one Column per column descriptor of the schema, tables in
\* declaration order and columns in declared order, qualified with the
\* table's dot-joined name_parts exactly when flagged ambiguous; every other
\* item yields one item; so the output holds (non-Wildcard items) +
\* (Wildcard items) * (total column count) items.
C1_WildcardExpansion ==
    ProjectionRewritten =>
        LET items == input.projection_expressions
            wildcards == {i \in 1..Len(items) : items[i] = Wildcard}
        IN  /\ Len(ir.projection_expressions) =
                  (Len(items) - Cardinality(wildcards)) + Cardinality(wildcards) * TotalColumns
            /\ \A i \in 1..Len(items) :
                  IF i \in wildcards
                  THEN \A k \in 1..TotalColumns :
                          ir.projection_expressions[OutputBefore(i) + k] = WildcardColumn(k)
                  ELSE ir.projection_expressions[OutputBefore(i) + 1] = Rewritten(items[i]).expr

\* C1 witness: an item followed by a Wildcard over two joined tables, one of
\* whose columns is ambiguous.
C1_Witness ==
    /\ pc = "filter"
    /\ tables_schema = <<T1, T2>>
    /\ input.projection_expressions = <<Column("a"), Wildcard>>
    /\ ir.projection_expressions =
          <<Column("a"), Column("a"), Column("b"), Column("db1.t2.a")>>

\* The clause item a breadcrumb names: its clause and the item as it was in
\* the input.
NamesInputItem(crumb) ==
    \E site \in Sites :
        \E i \in 1..Len(SiteItems(input, site)) :
            crumb = [clause |-> ClauseName(site), expr |-> SiteItems(input, site)[i]]

\* C5 as stated: every error rewrite returns carries a breadcrumb naming the
\* clause and the original clause item.
C5_AsStated ==
    (pc = "failed") => (Len(result.back) = 1 /\ NamesInputItem(result.back[1]))

\* C5 amended: every error that rewrite_expr raises in one of the six sites
\* keeps its kind and message and has one breadcrumb appended that names the
\* clause and the original clause item; the rejection of an aliased wildcard
\* in the projection list is returned as the bare Syntax error.
C5_ErrorContext ==
    (pc = "failed") =>
        \/ /\ result = AliasedWildcardError
           /\ \E i \in 1..Len(input.projection_expressions) :
                 AliasedWildcard(input.projection_expressions[i])
        \/ /\ Len(result.back) = 1
           /\ NamesInputItem(result.back[1])
           /\ ~Rewritten(result.back[1].expr).ok
           /\ result.kind = Rewritten(result.back[1].expr).kind
           /\ result.message = Rewritten(result.back[1].expr).message

\* C5 witness: a Syntax error raised in the having predicate.
C5_Witness ==
    /\ pc = "failed"
    /\ result.kind = "SyntaxException"
    /\ Len(result.back) = 1
    /\ result.back[1].clause = "having predicate"
    /\ result.back[1].expr = input.having_predicate[1]

\* The names of the Column nodes of an expression.
ColumnNames(e) ==
    {LeafSeq(e)[k].name : k \in {j \in 1..Len(LeafSeq(e)) : LeafSeq(e)[j].tag = "Column"}}

\* name is the short name of a schema column, or the qualified form of one
\* that is flagged ambiguous.
NamesSchemaColumn(name) ==
    \/ contains_column(tables_schema, name)
    \/ \E t \in 1..Len(tables_schema) :
          \E c \in 1..Len(tables_schema[t].columns_desc) :
              LET column_desc == tables_schema[t].columns_desc[c]
              IN  \/ name = column_desc.short_name
                  \/ /\ column_desc.is_ambiguity
                     /\ name = Join(tables_schema[t].name_parts) \o "." \o column_desc.short_name

\* C6: after a successful rewrite every Column of every clause names a
\* column of the joined schema, bare or in the qualified form of an
\* ambiguous column.
C6_ColumnsInSchema ==
    (pc = "done") =>
        /\ result.ok
        /\ \A site \in Sites :
              \A i \in 1..Len(SiteItems(result.ir, site)) :
                  \A name \in ColumnNames(SiteItems(result.ir, site)[i]) :
                      NamesSchemaColumn(name)

\* C6 witness: a rewritten query whose filter holds a qualified and a bare
\* column resolved from references.
C6_Witness ==
    /\ pc = "done"
    /\ input.filter_predicate = <<QualifiedColumn(<<"t2", "a">>)>>
    /\ result.ir.filter_predicate = <<Column("db1.t2.a")>>
    /\ input.order_by_expressions = <<Sort(QualifiedColumn(<<"t1", "b">>), TRUE, FALSE, Column("a"))>>
    /\ result.ir.order_by_expressions = <<Sort(Column("b"), TRUE, FALSE, Column("a"))>>

\* The items before position i of the projection list go through, and so do
\* the three lists rewritten before the projection.
RewritesUpTo(i) ==
    /\ \A site \in {GroupSite, OrderSite, AggregateSite} :
          \A j \in 1..Len(SiteItems(input, site)) :
              ~ItemFails(site, SiteItems(input, site)[j])
    /\ \A j \in 1..(i - 1) : ~ItemFails(ProjectionSite, input.projection_expressions[j])

\* The expressions whose leaves are all Wildcard.
OnlyWildcards(e) ==
    /\ Len(LeafSeq(e)) > 0
    /\ \A k \in 1..Len(LeafSeq(e)) : LeafSeq(e)[k] = Wildcard

\* C8: a projection item Alias(_, Wildcard) reached by rewrite_projection
\* fails it with the Syntax error, no projection output produced; only such
\* an item is rejected: a Wildcard nested deeper, or in another clause,
\* passes through unexpanded.
C8_AliasedWildcard ==
    /\ \A i \in 1..Len(input.projection_expressions) :
          (/\ pc \in {"filter", "having", "done", "failed"}
           /\ AliasedWildcard(input.projection_expressions[i])
           /\ RewritesUpTo(i)) =>
                /\ pc = "failed"
                /\ result = AliasedWildcardError
                /\ ir.projection_expressions = input.projection_expressions
    /\ (pc = "failed" /\ result.kind = "SyntaxException"
            /\ result.message = AliasedWildcardError.message) =>
          \E i \in 1..Len(input.projection_expressions) :
              AliasedWildcard(input.projection_expressions[i]) /\ RewritesUpTo(i)
    /\ (pc = "done") =>
          \A site \in Sites :
              \A i \in 1..Len(SiteItems(input, site)) :
                  LET e == SiteItems(input, site)[i]
                  IN  (OnlyWildcards(e) /\ ~(site = ProjectionSite /\ e = Wildcard)) =>
                        IF site = ProjectionSite
                        THEN result.ir.projection_expressions[OutputBefore(i) + 1] = e
                        ELSE SiteItems(result.ir, site)[i] = e

\* C8 witness: a Wildcard expanded, then an aliased Wildcard rejected, the
\* projection list left as it was.
C8_Witness ==
    /\ pc = "failed"
    /\ tables_schema = <<T1, T2>>
    /\ input.projection_expressions = <<Wildcard, Alias("x", Wildcard)>>
    /\ result = AliasedWildcardError
    /\ ir.projection_expressions = input.projection_expressions

\* The sites rewritten before pc.
SitesBefore ==
    CASE pc = "created" -> {}
      [] pc = "order" -> {GroupSite}
      [] pc = "aggregate" -> GroupSite..OrderSite
      [] pc = "projection" -> GroupSite..AggregateSite
      [] pc = "filter" -> GroupSite..ProjectionSite
      [] pc = "having" -> GroupSite..FilterSite
      [] pc = "done" -> Sites
      [] pc = "failed" -> {site \in Sites : site < FirstFailingPosition[1]}

\* C10: the sites are rewritten in the order group-by, order-by, aggregate,
\* projection, filter, having; rewrite stops at the first failure and returns
\* the error of the earliest failing site, of its earliest failing element
\* and of that element's first failing leaf, depth first and left to right;
\* nothing is rewritten after it and no ir is returned with it.
C10_FirstFailure ==
    /\ (pc = "failed") =>
          /\ FailingPositions # {}
          /\ LET p == FirstFailingPosition
                 e == SiteItems(input, p[1])[p[2]]
             IN  result = IF p[1] = ProjectionSite /\ AliasedWildcard(e)
                          THEN AliasedWildcardError
                          ELSE FirstLeafError(p[1], e)
          /\ DOMAIN result = {"ok", "kind", "message", "back"}
          /\ ~ENABLED Next
    /\ (pc # "failed") =>
          \A p \in FailingPositions : p[1] \notin SitesBefore
    /\ (pc # "created") =>
          \A site \in Sites \ SitesBefore : SiteItems(ir, site) = SiteItems(input, site)

\* C10 witness: two failing elements in one list, the first of them with two
\* failing leaves.
C10_Witness ==
    /\ pc = "failed"
    /\ Cardinality(FailingPositions) = 2
    /\ LET p == FirstFailingPosition
       IN  /\ \A q \in FailingPositions : q[1] = p[1]
           /\ Cardinality(FailingLeaves(SiteItems(input, p[1])[p[2]])) = 2
           /\ result.kind = "UnknownColumn"

(***************************************************************************)
(* Clause runs: rewrite_group, rewrite_order and rewrite_aggregate applied *)
(* to a list of expressions of at most MaxNodes nodes together.  A list is *)
(* drawn as a shape, whose leaves are holes, and the leaves that fill it.  *)
(***************************************************************************)
Hole == [tag |-> "Hole"]

ExprLeaves ==
    {Column("a"), QualifiedColumn(<<"t2", "a">>), QualifiedColumn(<<"t1", "b">>),
     Wildcard, Literal(1), Subquery("q"), ScalarSubquery("q")}

RECURSIVE ShapeTrees(_)
RECURSIVE ShapeForests(_)

\* The shapes of the expressions of exactly n nodes.
ShapeTrees(n) ==
    IF n = 1 THEN {Hole, ScalarFunction("f", <<>>)}
    ELSE LET below == ShapeTrees(n - 1)
             args == ShapeForests(n - 1)
         IN  {Alias("x", e) : e \in below}
             \cup {UnaryExpression("-", e) : e \in below}
             \cup {Cast(e, "Int32") : e \in below}
             \cup {ScalarFunction("f", a) : a \in args}
             \cup {AggregateFunction("sum", d, <<1>>, a) : d \in BOOLEAN, a \in args}
             \cup UNION {LET ls == ShapeTrees(i)
                             rs == ShapeTrees(n - 1 - i)
                         IN  {BinaryExpression(l, "+", r) : l \in ls, r \in rs}
                             \cup {Sort(l, asc, FALSE, r) :
                                      l \in ls, r \in rs, asc \in BOOLEAN} :
                        i \in 1..(n - 2)}

\* The shapes of the lists of expressions of exactly n nodes together.
ShapeForests(n) ==
    IF n = 0 THEN {<<>>}
    ELSE UNION {LET heads == ShapeTrees(j)
                    rests == ShapeForests(n - j)
                IN  {<<h>> \o r : h \in heads, r \in rests} : j \in 1..n}

ListShapes == UNION {ShapeForests(n) : n \in 0..MaxNodes}

RECURSIVE Holes(_)
RECURSIVE HolesOfAll(_)
Holes(e) ==
    CASE e.tag = "Hole" -> 1
      [] e.tag \in {"Alias", "UnaryExpression", "Cast"} -> Holes(e.expr)
      [] e.tag = "BinaryExpression" -> Holes(e.left) + Holes(e.right)
      [] e.tag = "Sort" -> Holes(e.expr) + Holes(e.origin_expr)
      [] e.tag \in {"ScalarFunction", "AggregateFunction"} -> HolesOfAll(e.args)

HolesOfAll(args) ==
    IF Len(args) = 0 THEN 0 ELSE Holes(Head(args)) + HolesOfAll(Tail(args))

\* The shape with its holes, from the (k+1)-th on, filled by leaves[k+1], ...
RECURSIVE Fill(_, _, _)
RECURSIVE FillAll(_, _, _)
Fill(e, leaves, k) ==
    CASE e.tag = "Hole" -> leaves[k + 1]
      [] e.tag = "Alias" -> Alias(e.alias, Fill(e.expr, leaves, k))
      [] e.tag = "UnaryExpression" -> UnaryExpression(e.op, Fill(e.expr, leaves, k))
      [] e.tag = "Cast" -> Cast(Fill(e.expr, leaves, k), e.data_type)
      [] e.tag = "BinaryExpression" ->
            BinaryExpression(Fill(e.left, leaves, k), e.op,
                             Fill(e.right, leaves, k + Holes(e.left)))
      [] e.tag = "Sort" ->
            Sort(Fill(e.expr, leaves, k), e.asc, e.nulls_first,
                 Fill(e.origin_expr, leaves, k + Holes(e.expr)))
      [] e.tag = "ScalarFunction" -> ScalarFunction(e.op, FillAll(e.args, leaves, k))
      [] e.tag = "AggregateFunction" ->
            AggregateFunction(e.op, e.distinct, e.params, FillAll(e.args, leaves, k))

FillAll(args, leaves, k) ==
    IF Len(args) = 0 THEN <<>>
    ELSE <<Fill(Head(args), leaves, k)>> \o FillAll(Tail(args), leaves, k + Holes(Head(args)))

ClauseInit ==
    /\ tables_schema \in {SubSeq(<<T1, T2>>, 1, n) : n \in 0..2}
    /\ current_database = "db1"
    /\ input = EmptyIR
    /\ ir = EmptyIR
    /\ pc = "created"
    /\ result = NoResult
    /\ ref_names = <<>>
    /\ matched = NoMatch
    /\ outcome = NoResult
    /\ subject = <<>>
    /\ rewritten = NoResult

\* subject' is any list of expressions within the bound.
AnySubject ==
    \E shape \in ListShapes :
        \E leaves \in [1..HolesOfAll(shape) -> ExprLeaves] :
            subject' = FillAll(shape, leaves, 0)

GroupClause ==
    /\ pc = "created"
    /\ AnySubject
    /\ rewritten' = rewrite_group(tables_schema, current_database,
                        [EmptyIR EXCEPT !.group_by_expressions = subject'])
    /\ pc' = "group"
    /\ UNCHANGED <<tables_schema, current_database, input, ir, result,
                   ref_names, matched, outcome>>

OrderClause ==
    /\ pc = "created"
    /\ AnySubject
    /\ rewritten' = rewrite_order(tables_schema, current_database,
                        [EmptyIR EXCEPT !.order_by_expressions = subject'])
    /\ pc' = "order"
    /\ UNCHANGED <<tables_schema, current_database, input, ir, result,
                   ref_names, matched, outcome>>

AggregateClause ==
    /\ pc = "created"
    /\ AnySubject
    /\ rewritten' = rewrite_aggregate(tables_schema, current_database,
                        [EmptyIR EXCEPT !.aggregate_expressions = subject'])
    /\ pc' = "aggregate"
    /\ UNCHANGED <<tables_schema, current_database, input, ir, result,
                   ref_names, matched, outcome>>

ClauseNext == GroupClause \/ OrderClause \/ AggregateClause

SpecClause == ClauseInit /\ [][ClauseNext]_vars

\* o has the shape of e: the same variant, fields and children in the same
\* places, the same leaves, but for a QualifiedColumn, which became a Column.
RECURSIVE SameShape(_, _)
SameShapes(es, os) ==
    /\ Len(os) = Len(es)
    /\ \A i \in 1..Len(es) : SameShape(es[i], os[i])

SameShape(e, o) ==
    CASE e.tag = "QualifiedColumn" -> o.tag = "Column" /\ DOMAIN o = {"tag", "name"}
      [] e.tag \in {"Column", "Literal", "Subquery", "ScalarSubquery", "Wildcard"} -> o = e
      [] e.tag \in {"Alias", "UnaryExpression", "Cast"} ->
            /\ DOMAIN o = DOMAIN e
            /\ [o EXCEPT !.expr = 0] = [e EXCEPT !.expr = 0]
            /\ SameShape(e.expr, o.expr)
      [] e.tag = "BinaryExpression" ->
            /\ DOMAIN o = DOMAIN e
            /\ o.tag = e.tag /\ o.op = e.op
            /\ SameShape(e.left, o.left)
            /\ SameShape(e.right, o.right)
      [] e.tag = "Sort" ->
            /\ DOMAIN o = DOMAIN e
            /\ o.tag = e.tag /\ o.asc = e.asc /\ o.nulls_first = e.nulls_first
            /\ SameShape(e.expr, o.expr)
            /\ SameShape(e.origin_expr, o.origin_expr)
      [] e.tag \in {"ScalarFunction", "AggregateFunction"} ->
            /\ DOMAIN o = DOMAIN e
            /\ [o EXCEPT !.args = 0] = [e EXCEPT !.args = 0]
            /\ SameShapes(e.args, o.args)

\* The list a clause run rewrote, as returned.
RewrittenList ==
    CASE pc = "group" -> rewritten.ir.group_by_expressions
      [] pc = "order" -> rewritten.ir.order_by_expressions
      [] pc = "aggregate" -> rewritten.ir.aggregate_expressions

\* C7: a successful rewrite keeps the shape of every expression: compound
\* nodes keep variant, fields and children in place, Column, Literal,
\* Subquery, ScalarSubquery and Wildcard leaves are the same, each
\* QualifiedColumn has become one Column; so the group-by, order-by and
\* aggregate lists keep their length and order.
C7_ShapePreserved ==
    (pc \in {"group", "order", "aggregate"} /\ rewritten.ok) =>
        SameShapes(subject, RewrittenList)

\* C7 witness: an order-by list of a function of two qualified references
\* rewritten to the function of their two columns.
C7_Witness ==
    /\ pc = "order"
    /\ rewritten.ok
    /\ subject = <<ScalarFunction("f", <<QualifiedColumn(<<"t2", "a">>),
                                         QualifiedColumn(<<"t1", "b">>)>>)>>
    /\ RewrittenList = <<ScalarFunction("f", <<Column("db1.t2.a"), Column("b")>>)>>

(***************************************************************************)
(* Resolver runs: a rewriter is created over a schema and a session, then  *)
(* rewrite_qualified_column is called on one reference.                    *)
(***************************************************************************)
Databases == Names

ResolveInit ==
    /\ AnySchema
    /\ current_database \in Databases
    /\ ref_names = <<>>
    /\ matched = NoMatch
    /\ outcome = NoResult
    /\ input = EmptyIR
    /\ ir = EmptyIR
    /\ pc = "created"
    /\ result = NoResult
    /\ subject = <<>>
    /\ rewritten = NoResult

\* The call rewrite_qualified_column(names).
Resolve ==
    /\ pc = "created"
    /\ \E names \in Refs :
        /\ ref_names' = names
        /\ matched' = best_match_table(tables_schema, current_database, names)
        /\ outcome' = rewrite_qualified_column(tables_schema, current_database, names)
    /\ pc' = "resolved"
    /\ UNCHANGED <<tables_schema, current_database, input, ir, result,
                   subject, rewritten>>

\* The same reference resolved once more by the same rewriter.
ResolveAgain ==
    /\ pc = "resolved"
    /\ matched' = best_match_table(tables_schema, current_database, ref_names)
    /\ outcome' = rewrite_qualified_column(tables_schema, current_database, ref_names)
    /\ UNCHANGED <<tables_schema, current_database, input, ir, pc, result,
                   ref_names, subject, rewritten>>

ResolveNext == Resolve \/ ResolveAgain

SpecResolve == ResolveInit /\ [][ResolveNext]_vars

\* The table a resolved reference was matched to, and what is left of the
\* reference after the matched prefix.
MatchedTable == tables_schema[matched.table]

Residual == SubSeq(ref_names, matched.pos + 1, Len(ref_names))

\* The columns of table_desc with the given short name, by position.
ColumnsNamed(table_desc, name) ==
    {c \in 1..Len(table_desc.columns_desc) : table_desc.columns_desc[c].short_name = name}

FirstColumnNamed(table_desc, name) ==
    CHOOSE c \in ColumnsNamed(table_desc, name) :
        \A d \in ColumnsNamed(table_desc, name) : c <= d

\* The two match rules, stated on the name parts themselves.
FullPrefixRule(names, name_parts) ==
    /\ Len(names) >= Len(name_parts)
    /\ \A index \in 1..Len(name_parts) : names[index] = name_parts[index]

ElisionRule(names, name_parts, database) ==
    /\ Len(name_parts) = 2
    /\ name_parts[1] = database
    /\ names[1] = name_parts[2]

Candidates ==
    {t \in 1..Len(tables_schema) :
        \/ FullPrefixRule(ref_names, tables_schema[t].name_parts)
        \/ ElisionRule(ref_names, tables_schema[t].name_parts, current_database)}

(***************************************************************************)
(* Claims about the resolver                                               *)
(***************************************************************************)
\* C2: whenever rewrite_qualified_column succeeds, the result is one Column
\* named "<matched table's name_parts joined by '.'>.<name>" when the first
\* column of the matched table with short name <name> is flagged ambiguous,
\* and named by the bare <name> otherwise; a table matched by
\* current-database elision still qualifies with its full declared name.
C2_ResolvedRendering ==
    (pc = "resolved" /\ outcome.ok) =>
        /\ matched.found
        /\ LET name == ref_names[Len(ref_names)]
               table_desc == MatchedTable
           IN  /\ ColumnsNamed(table_desc, name) # {}
               /\ outcome.expr =
                    IF table_desc.columns_desc[FirstColumnNamed(table_desc, name)].is_ambiguity
                    THEN Column(Join(table_desc.name_parts) \o "." \o name)
                    ELSE Column(name)

\* C2 witness: a reference table.column matched by elision to a table declared
\* db.table that holds two columns of that short name, the first of them
\* ambiguous; the result carries the full qualifier db.table.column.
C2_Witness ==
    /\ pc = "resolved"
    /\ outcome.ok
    /\ Len(ref_names) = 2
    /\ matched.pos = 1
    /\ Len(MatchedTable.name_parts) = 2
    /\ Cardinality(ColumnsNamed(MatchedTable, ref_names[2])) = 2
    /\ outcome.expr = Column(MatchedTable.name_parts[1] \o "." \o ref_names[1]
                             \o "." \o ref_names[2])

\* What the table selected for the reference decides, alone.
SelectedOutcomeHolds(t) ==
    /\ matched.found
    /\ matched.table = t
    /\ IF Len(Residual) # 1
       THEN ~outcome.ok /\ outcome.kind = "SyntaxException"
       ELSE IF ColumnsNamed(tables_schema[t], Residual[1]) = {}
            THEN ~outcome.ok /\ outcome.kind = "UnknownColumn"
            ELSE outcome.ok

C3_Selected ==
    IF Candidates = {}
    THEN /\ ~matched.found
         /\ outcome = UnknownColumn("Unknown column " \o Join(ref_names))
    ELSE SelectedOutcomeHolds(
            CHOOSE t \in Candidates : \A u \in Candidates : t <= u)

\* C3: the table selected is the first declared one that satisfies the
\* full-prefix rule or the elision rule, that table alone decides the outcome
\* (no later table is tried when it lacks the column or leaves a residual of
\* length other than 1), and resolving the same reference again gives the
\* same outcome.
C3_FirstDeclaredWins ==
    [][(pc' = "resolved") =>
          /\ C3_Selected'
          /\ (pc = "resolved" => (outcome' = outcome /\ matched' = matched))]_vars

\* C3 witness: the first table matches only by elision and lacks the column,
\* the second matches by full prefix and has it; the reference fails.
C3_Witness ==
    /\ pc = "resolved"
    /\ Len(tables_schema) = 2
    /\ Len(ref_names) = 2
    /\ ElisionRule(ref_names, tables_schema[1].name_parts, current_database)
    /\ ~FullPrefixRule(ref_names, tables_schema[1].name_parts)
    /\ FullPrefixRule(ref_names, tables_schema[2].name_parts)
    /\ ColumnsNamed(tables_schema[1], ref_names[2]) = {}
    /\ ColumnsNamed(tables_schema[2], ref_names[2]) # {}
    /\ matched.table = 1
    /\ ~outcome.ok

\* The tables declared db.table that a two-part reference table.column names,
\* with db other than the current database.
ForeignTables ==
    {t \in 1..Len(tables_schema) :
        /\ Len(tables_schema[t].name_parts) = 2
        /\ tables_schema[t].name_parts[2] = ref_names[1]
        /\ tables_schema[t].name_parts[1] # current_database}

\* C4 as stated: table.column resolves to a table declared db.table only when
\* db is the current database, and fails with Unknown-Column when it is not.
\* (Stated for references that are not themselves the name_parts of a
\* declared table, so that what it says does not rest on C9.)
C4_AsStated ==
    (/\ pc = "resolved"
     /\ Len(ref_names) = 2
     /\ \A t \in 1..Len(tables_schema) : tables_schema[t].name_parts # ref_names) =>
        \A t \in ForeignTables :
            /\ ~(outcome.ok /\ matched.table = t)
            /\ ~outcome.ok
            /\ outcome.kind = "UnknownColumn"

\* C4 amended: table.column is never resolved through a table declared
\* db.table with db other than the current database; it fails with
\* Unknown-Column when no declared table satisfies a match rule, and
\* otherwise the first declared table that does decides.
C4_ElisionOnlyCurrentDatabase ==
    (pc = "resolved" /\ Len(ref_names) = 2) =>
        /\ \A t \in ForeignTables : ~(outcome.ok /\ matched.found /\ matched.table = t)
        /\ (outcome.ok /\ Len(MatchedTable.name_parts) = 2) =>
                MatchedTable.name_parts[1] = current_database
        /\ (ForeignTables # {} /\ Candidates = {}) =>
                outcome = UnknownColumn("Unknown column " \o Join(ref_names))

\* C4 witness: table.column with a table declared otherdb.table first and an
\* alias named table after it; the reference resolves through the alias.
C4_Witness ==
    /\ pc = "resolved"
    /\ Len(ref_names) = 2
    /\ Len(tables_schema) = 2
    /\ 1 \in ForeignTables
    /\ tables_schema[2].name_parts = <<ref_names[1]>>
    /\ outcome.ok
    /\ matched.table = 2

\* C9: whenever best_match_table returns a match the residual is not empty,
\* and the Syntax error is raised only for a residual of more than one name.
C9_ResidualNeverEmpty ==
    (pc = "resolved" /\ matched.found) =>
        /\ Len(Residual) >= 1
        /\ (~outcome.ok /\ outcome.kind = "SyntaxException") => Len(Residual) > 1

====
